---- MODULE Spec2Model ----
(***************************************************************************)
(* MediTrack: appointment booking, doctor status updates and the slot      *)
(* estimate of MediTrackApp (views.py, forms.py, models.py).               *)
(*                                                                         *)
(* The store is the Appointment table of models.py.  A booking request is  *)
(* two steps of one worker, form.is_valid() and form.save(), so that two   *)
(* requests can interleave between the check and the insert.               *)
(***************************************************************************)
EXTENDS Integers, Sequences, FiniteSets, TLC

\* ------------------------------------------------------------------ bounds
MaxAppointments == 2    \* rows the Appointment table may hold
MaxDay == 8             \* slot estimates are asked for ranges within 1..MaxDay
MaxSlots == 2           \* entries a doctor's available_time_slots list may hold
MaxIterations == 50     \* iterations of get_available_time_slots's loop followed

Doctors  == {"d1", "d2"}          \* DoctorProfile rows
Patients == {"p1"}                \* PatientProfile rows
Workers  == {"w1", "w2"}          \* request handlers running concurrently

Dates == {1, 2}                   \* calendar dates a booking form may post
Times == {1}                      \* times of day a booking form may post
\* times of day a status form may post as end_time: the bookable start time,
\* which is not later than the appointment's time
EndTimes == {1}

\* an optional value: <<>> is None, <<v>> is the value v
None == <<>>
Some(v) == <<v>>

VARIABLES
  appointments,   \* the Appointment table: a sequence, the row id is the index
  today,          \* timezone.now().date(), as a day number (day 1 is a Monday)
  pc,             \* per worker: where its booking request stands
  form,           \* per worker: the cleaned data of its booking request
  profile,        \* per doctor: available_days and available_time_slots
  slots_call,     \* the last call of calculate_available_slots and its result
  gats,           \* the call of get_available_time_slots: arguments and locals
  users,          \* the User table with each user's profile rows
  sessions,       \* the users a session is open for
  response,       \* the last request to an account view and how it ended
  log,            \* what the user administration views wrote to the log
  setting,        \* a SystemSetting row: setting_type and the text in value
  got             \* the last set_value argument and get_value result

accountVars == <<users, sessions, response, log>>
settingVars == <<setting, got>>
vars == <<appointments, today, pc, form, profile, slots_call, gats,
          users, sessions, response, log, setting, got>>
slotVars == <<profile, slots_call, gats, accountVars, settingVars>>
clinicVars == <<appointments, today, pc, form, profile, slots_call, gats,
                settingVars>>

\* models.py Appointment.STATUS_CHOICES
STATUS_CHOICES == {"pending", "confirmed", "cancelled", "completed"}

\* the fields a booking form posts (forms.py AppointmentBookingForm.Meta.fields)
BookingData == [patient : Patients, doctor : Doctors, date : Dates, time : Times]

NoForm == [patient |-> "none", doctor |-> "none", date |-> 0, time |-> 0]

Ids == DOMAIN appointments

\* Appointment.objects.filter(doctor=doctor, date=date, time=time).exists()
SlotTaken(appts, doctor, date, time) ==
  \E i \in DOMAIN appts :
     /\ appts[i].doctor = doctor
     /\ appts[i].date = date
     /\ appts[i].time = time

\* AppointmentBookingForm.clean: the error it raises, or "ok"
AppointmentBookingForm_clean_CancelledFree(cleaned, appts, now) ==
  IF cleaned.date < now
    THEN "past_date"
    ELSE IF \E i \in DOMAIN appts :
               /\ appts[i].doctor = cleaned.doctor
               /\ appts[i].date = cleaned.date
               /\ appts[i].time = cleaned.time
               /\ appts[i].status # "cancelled"
           THEN "slot_conflict"
           ELSE "ok"

AppointmentBookingForm_clean_ConflictFirst(cleaned, appts, now) ==
  IF SlotTaken(appts, cleaned.doctor, cleaned.date, cleaned.time)
    THEN "slot_conflict"
    ELSE IF cleaned.date < now THEN "past_date" ELSE "ok"

AppointmentBookingForm_clean_NoConflictCheck(cleaned, appts, now) ==
  IF cleaned.date < now THEN "past_date" ELSE "ok"

AppointmentBookingForm_clean(cleaned, appts, now) ==
  IF cleaned.date < now
    THEN "past_date"
    ELSE IF SlotTaken(appts, cleaned.doctor, cleaned.date, cleaned.time)
           THEN "slot_conflict"
           ELSE "ok"

\* a row created with another status than the model's default
NewAppointment_Confirmed(cleaned) ==
  [patient  |-> cleaned.patient,
   doctor   |-> cleaned.doctor,
   date     |-> cleaned.date,
   time     |-> cleaned.time,
   status   |-> "confirmed",
   end_time |-> None]

\* the row form.save() inserts: the posted fields, the model defaults for the rest
NewAppointment(cleaned) ==
  [patient  |-> cleaned.patient,
   doctor   |-> cleaned.doctor,
   date     |-> cleaned.date,
   time     |-> cleaned.time,
   status   |-> "pending",
   end_time |-> None]

\* UniqueConstraint(fields=["doctor", "date", "time"], name="unique_doctor_slot"):
\* whether the table accepts the row
unique_doctor_slot_Off(appts, row) == TRUE

unique_doctor_slot_ActiveOnly(appts, row) ==
  ~ \E i \in DOMAIN appts :
       /\ appts[i].doctor = row.doctor
       /\ appts[i].date = row.date
       /\ appts[i].time = row.time
       /\ appts[i].status # "cancelled"

unique_doctor_slot(appts, row) ==
  ~ SlotTaken(appts, row.doctor, row.date, row.time)

\* ------------------------------------------------------- slot estimate
\* datetime.date.weekday(): Monday is 0, Sunday is 6; day number 1 is a Monday
weekday(date) == (date - 1) % 7

\* the strings an entry of available_time_slots is drawn from
SlotStrings == {"09:00:00", "14:00:00", "not-a-time"}

\* datetime.strptime(slot, "%H:%M:%S") returns a time; otherwise ValueError
strptime_ok(slot) == slot \in {"09:00:00", "10:00:00", "14:00:00"}

\* the str values available_time_slots is drawn from, and json.loads of each
JsonTexts == {"[]", "[\"10:00:00\", \"14:00:00\"]", "10 and 14"}

json_loads(text) ==
  CASE text = "[]" -> [ok |-> TRUE, value |-> <<>>]
    [] text = "[\"10:00:00\", \"14:00:00\"]"
         -> [ok |-> TRUE, value |-> <<"10:00:00", "14:00:00">>]
    [] OTHER -> [ok |-> FALSE, value |-> <<>>]

\* a JSONField value of available_time_slots: a list of strings or a str
ListValue(l) == [type |-> "list", list |-> l, str |-> ""]
StrValue(t) == [type |-> "str", list |-> <<>>, str |-> t]

SlotLists == UNION {[1..n -> SlotStrings] : n \in 0..MaxSlots}
TimeSlotValues == {ListValue(l) : l \in SlotLists} \cup {StrValue(t) : t \in JsonTexts}

\* the lists available_days is drawn from, as sets of weekday numbers
DayValues == SUBSET {0, 5, 6}

\* models.py DoctorProfile: both JSON fields default to the empty list
NewDoctorProfile ==
  [available_days |-> {}, available_time_slots |-> ListValue(<<>>)]

NoCall == [doctor |-> "none", start_date |-> 0, end_date |-> 0,
           raised |-> "", value |-> 0]

\* views.py line 1729: doctor_profile.available_days or [1, 2, 3, 4, 5]
ResolveDays(doctor_profile) ==
  IF doctor_profile.available_days = {}
    THEN {1, 2, 3, 4, 5}
    ELSE doctor_profile.available_days

\* views.py lines 1731-1740: the list the count runs over
ResolveSlots(doctor_profile) ==
  LET slots_raw == doctor_profile.available_time_slots
  IN IF slots_raw.type = "str"
       THEN IF json_loads(slots_raw.str).ok
              THEN json_loads(slots_raw.str).value
              ELSE <<"09:00:00">>
       ELSE IF slots_raw.list = <<>> THEN <<"09:00:00">> ELSE slots_raw.list

\* views.py lines 1744-1749: the while loop over the dates of the range
RECURSIVE CountBusinessDays(_, _, _)
CountBusinessDays(current_date, end_date, available_days) ==
  IF current_date <= end_date
    THEN (IF weekday(current_date) \in available_days THEN 1 ELSE 0)
         + CountBusinessDays(current_date + 1, end_date, available_days)
    ELSE 0

\* views.py lines 1751-1757: the for loop over the slots; strptime raises
\* ValueError at the first entry that is no time
RECURSIVE SumSlots(_, _, _)
SumSlots(available_slots, business_days, total_slots) ==
  IF available_slots = <<>>
    THEN [raised |-> "", value |-> total_slots]
    ELSE IF strptime_ok(Head(available_slots))
           THEN SumSlots(Tail(available_slots), business_days,
                         total_slots + 4 * business_days)
           ELSE [raised |-> "ValueError", value |-> 0]

\* views.py calculate_available_slots: what it returns or raises
calculate_available_slots(doctor_profile, start_date, end_date) ==
  SumSlots(ResolveSlots(doctor_profile),
           CountBusinessDays(start_date, end_date, ResolveDays(doctor_profile)),
           0)

\* ------------------------------------------- get_available_time_slots
\* minutes in a day: datetime.time() of a datetime is its minute of the day
MinutesPerDay == 1440

\* the datetime.time values start_time and end_time are drawn from, as minutes
\* after midnight: 09:00, 10:00, 11:00, 23:45
TimeInputs == {540, 600, 660, 1425}

\* the slot_duration values, in minutes
DurationInputs == {15, 30, 900, 0, -30}

\* a time string is the tuple of its fields: "09:30" is <<9, 30>> and
\* "09:30:00" is <<9, 30, 0>>
BookedInputs == {{}, {<<9, 30>>}, {<<9, 30, 0>>}}

\* current_time.time(), with current_time in minutes after today's midnight
time_of(current_time) == current_time % MinutesPerDay

\* current_time.strftime("%H:%M")
strftime_HM(current_time) ==
  <<time_of(current_time) \div 60, time_of(current_time) % 60>>

NoGats == [pc |-> "none", start_time |-> 0, end_time |-> 0, slot_duration |-> 0,
           booked_slots |-> {}, current_time |-> 0, slots |-> <<>>,
           iterations |-> 0]

\* ------------------------------------------------------------ accounts
\* the primary keys of the User table: a1 is the administrator the
\* installation starts with, u1 is free
UserIds == {"a1", "u1"}

\* request.user of a request without a session
AnonymousUser == "anonymous"
Requesters == UserIds \cup {AnonymousUser}

\* models.py User.ROLE_CHOICES
ROLE_CHOICES == {"admin", "patient", "doctor"}

\* the role values a form may post
RoleInputs == ROLE_CHOICES \cup {"bogus"}

\* the related name of the profile a role goes with
ProfileOf(role) ==
  CASE role = "admin" -> "admin_profile"
    [] role = "doctor" -> "doctor_profile"
    [] role = "patient" -> "patient_profile"
    [] OTHER -> "none"

NoUser == [exists |-> FALSE, role |-> "none", is_active |-> FALSE, profiles |-> {}]

InitialUsers ==
  [id \in UserIds |->
     IF id = "a1"
       THEN [exists |-> TRUE, role |-> "admin", is_active |-> TRUE,
             profiles |-> {"admin_profile"}]
       ELSE NoUser]

NoResponse == [view |-> "none", allowed_roles |-> {}, requester |-> AnonymousUser,
               target |-> "none", outcome |-> "none"]

\* request.user.is_authenticated
is_authenticated(requester) == requester \in sessions

\* decorators.py role_required, the wrapper: what it does with the request
role_required_AnyRole(allowed_roles, requester) ==
  IF ~ is_authenticated(requester) THEN "redirect_login" ELSE "view_func"

role_required(allowed_roles, requester) ==
  IF ~ is_authenticated(requester)
    THEN "redirect_login"
    ELSE IF users[requester].role \notin allowed_roles
           THEN "PermissionDenied"
           ELSE "view_func"

\* User.save(): full_clean() first; the role must be one of the choices and
\* User.clean refuses an admin without an admin_profile
User_full_clean(user) ==
  /\ user.role \in ROLE_CHOICES
  /\ user.role = "admin" => "admin_profile" \in user.profiles

\* UserLoginForm (an AuthenticationForm) with the right password: valid for
\* an existing user that is active
UserLoginForm_is_valid(user) == user.exists /\ user.is_active

\* ------------------------------------------------------- SystemSetting
\* a text is the sequence of its characters: "12" is <<"1", "2">>
DigitChars == <<"0", "1", "2", "3", "4", "5", "6", "7", "8", "9">>
IsDigit(c) == \E i \in DOMAIN DigitChars : DigitChars[i] = c
DigitValue(c) == (CHOOSE i \in DOMAIN DigitChars : DigitChars[i] = c) - 1

StartsWith(t, prefix) ==
  Len(t) >= Len(prefix) /\ SubSeq(t, 1, Len(prefix)) = prefix
Drop(t, n) == SubSeq(t, n + 1, Len(t))

\* Python values: None, bool, int, str, list, and the empty dict; t is the
\* type and the field of that type holds the value
PyValue(t, b, n, s, l) == [t |-> t, b |-> b, n |-> n, s |-> s, l |-> l]
PyNone == PyValue("None", FALSE, 0, <<>>, <<>>)
PyBool(b) == PyValue("bool", b, 0, <<>>, <<>>)
PyInt(n) == PyValue("int", FALSE, n, <<>>, <<>>)
PyStr(s) == PyValue("str", FALSE, 0, s, <<>>)
PyList(l) == PyValue("list", FALSE, 0, <<>>, l)
PyDict == PyValue("dict", FALSE, 0, <<>>, <<>>)

\* bool(v), the truth value `if new_value` tests
truth(v) ==
  CASE v.t = "bool" -> v.b
    [] v.t = "int" -> v.n # 0
    [] v.t = "str" -> v.s # <<>>
    [] v.t = "list" -> v.l # <<>>
    [] OTHER -> FALSE

\* str(n) of an int
RECURSIVE str_of_nat(_)
str_of_nat(n) ==
  IF n < 10 THEN <<DigitChars[n + 1]>>
  ELSE str_of_nat(n \div 10) \o <<DigitChars[(n % 10) + 1]>>

str_of_int(n) == IF n < 0 THEN <<"-">> \o str_of_nat(0 - n) ELSE str_of_nat(n)

\* the number a sequence of digits writes
RECURSIVE nat_of_digits(_, _)
nat_of_digits(ds, acc) ==
  IF ds = <<>> THEN acc
  ELSE nat_of_digits(Tail(ds), 10 * acc + DigitValue(Head(ds)))

\* text.strip() for the blank
RECURSIVE lstrip(_)
lstrip(t) == IF t # <<>> /\ Head(t) = " " THEN lstrip(Tail(t)) ELSE t

RECURSIVE rstrip(_)
rstrip(t) ==
  IF t # <<>> /\ t[Len(t)] = " " THEN rstrip(SubSeq(t, 1, Len(t) - 1)) ELSE t

\* int(text): blanks around, an optional minus sign, one or more digits;
\* anything else is a ValueError
int_of_str(text) ==
  LET u == rstrip(lstrip(text))
      negative == u # <<>> /\ Head(u) = "-"
      ds == IF negative THEN Tail(u) ELSE u
  IN IF ds # <<>> /\ \A i \in DOMAIN ds : IsDigit(ds[i])
       THEN [ok |-> TRUE,
             value |-> IF negative THEN 0 - nat_of_digits(ds, 0)
                       ELSE nat_of_digits(ds, 0)]
       ELSE [ok |-> FALSE, value |-> 0]

\* text.lower()
lower_char(c) ==
  CASE c = "T" -> "t" [] c = "R" -> "r" [] c = "U" -> "u" [] c = "E" -> "e"
    [] c = "Y" -> "y" [] c = "S" -> "s" [] OTHER -> c
lower(text) == [i \in DOMAIN text |-> lower_char(text[i])]

\* json.dumps(v)
RECURSIVE json_dumps(_)
RECURSIVE json_dumps_items(_)
json_dumps_items(l) ==
  IF Len(l) = 1 THEN json_dumps(l[1])
  ELSE json_dumps(l[1]) \o <<",", " ">> \o json_dumps_items(Tail(l))

json_dumps(v) ==
  CASE v.t = "None" -> <<"n", "u", "l", "l">>
    [] v.t = "bool" -> IF v.b THEN <<"t", "r", "u", "e">>
                       ELSE <<"f", "a", "l", "s", "e">>
    [] v.t = "int" -> str_of_int(v.n)
    [] v.t = "list" -> IF v.l = <<>> THEN <<"[", "]">>
                       ELSE <<"[">> \o json_dumps_items(v.l) \o <<"]">>
    [] OTHER -> <<"{", "}">>

\* json.loads(text), by recursive descent: what was read and the rest
ParseFail == [ok |-> FALSE, value |-> PyNone, rest |-> <<>>]
Parsed(value, rest) == [ok |-> TRUE, value |-> value, rest |-> rest]

RECURSIVE DigitPrefixLen(_)
DigitPrefixLen(t) ==
  IF t # <<>> /\ IsDigit(Head(t)) THEN 1 + DigitPrefixLen(Tail(t)) ELSE 0

\* a JSON number without fraction or exponent: no leading zeros
JsonNumber(u) ==
  LET negative == Head(u) = "-"
      d == IF negative THEN Tail(u) ELSE u
      k == IF Head(d) = "0" THEN 1 ELSE DigitPrefixLen(d)
      n == nat_of_digits(SubSeq(d, 1, k), 0)
  IN IF d = <<>> \/ ~ IsDigit(Head(d))
       THEN ParseFail
       ELSE Parsed(PyInt(IF negative THEN 0 - n ELSE n), Drop(d, k))

RECURSIVE ParseValue(_)
RECURSIVE ParseItems(_, _)
ParseItems(t, acc) ==
  LET u == lstrip(t)
  IN IF acc = <<>> /\ StartsWith(u, <<"]">>)
       THEN Parsed(PyList(<<>>), Drop(u, 1))
       ELSE LET r == ParseValue(u)
                w == lstrip(r.rest)
            IN IF ~ r.ok THEN ParseFail
               ELSE IF StartsWith(w, <<"]">>)
                      THEN Parsed(PyList(Append(acc, r.value)), Drop(w, 1))
                      ELSE IF StartsWith(w, <<",">>)
                             THEN ParseItems(Drop(w, 1), Append(acc, r.value))
                             ELSE ParseFail

ParseValue(t) ==
  LET u == lstrip(t)
  IN IF u = <<>> THEN ParseFail
     ELSE IF StartsWith(u, <<"n", "u", "l", "l">>)
       THEN Parsed(PyNone, Drop(u, 4))
     ELSE IF StartsWith(u, <<"t", "r", "u", "e">>)
       THEN Parsed(PyBool(TRUE), Drop(u, 4))
     ELSE IF StartsWith(u, <<"f", "a", "l", "s", "e">>)
       THEN Parsed(PyBool(FALSE), Drop(u, 5))
     ELSE IF Head(u) = "["
       THEN ParseItems(Tail(u), <<>>)
     ELSE IF Head(u) = "{"
       THEN IF StartsWith(lstrip(Tail(u)), <<"}">>)
              THEN Parsed(PyDict, Drop(lstrip(Tail(u)), 1))
              ELSE ParseFail
     ELSE IF IsDigit(Head(u)) \/ Head(u) = "-"
       THEN JsonNumber(u)
     ELSE ParseFail

\* json.loads(text): the value, or JSONDecodeError
json_loads_text(text) ==
  LET r == ParseValue(text)
  IN IF r.ok /\ lstrip(r.rest) = <<>>
       THEN [ok |-> TRUE, value |-> r.value]
       ELSE [ok |-> FALSE, value |-> PyNone]

\* the texts value.lower() is looked up in: 'true', '1', 'yes'
TrueTexts == {<<"t", "r", "u", "e">>, <<"1">>, <<"y", "e", "s">>}

\* get_value without the try/except around int() and json.loads()
SystemSetting_get_value_Unguarded(s) ==
  IF s.setting_type = "boolean"
    THEN [raised |-> "", value |-> PyBool(lower(s.value) \in TrueTexts)]
  ELSE IF s.setting_type = "integer"
    THEN IF int_of_str(s.value).ok
           THEN [raised |-> "", value |-> PyInt(int_of_str(s.value).value)]
           ELSE [raised |-> "ValueError", value |-> PyNone]
  ELSE IF s.setting_type = "json"
    THEN IF json_loads_text(s.value).ok
           THEN [raised |-> "", value |-> json_loads_text(s.value).value]
           ELSE [raised |-> "JSONDecodeError", value |-> PyNone]
  ELSE [raised |-> "", value |-> PyStr(s.value)]

\* SystemSetting.get_value: what it returns, and the exception it lets out
SystemSetting_get_value(s) ==
  IF s.setting_type = "boolean"
    THEN [raised |-> "", value |-> PyBool(lower(s.value) \in TrueTexts)]
  ELSE IF s.setting_type = "integer"
    THEN IF int_of_str(s.value).ok
           THEN [raised |-> "", value |-> PyInt(int_of_str(s.value).value)]
           ELSE [raised |-> "", value |-> PyInt(0)]
  ELSE IF s.setting_type = "json"
    THEN IF json_loads_text(s.value).ok
           THEN [raised |-> "", value |-> json_loads_text(s.value).value]
           ELSE [raised |-> "", value |-> PyDict]
  ELSE [raised |-> "", value |-> PyStr(s.value)]

\* SystemSetting.set_value: the text it leaves in value
SystemSetting_set_value(s, new_value) ==
  IF s.setting_type = "boolean"
    THEN IF truth(new_value) THEN <<"t", "r", "u", "e">>
         ELSE <<"f", "a", "l", "s", "e">>
  ELSE IF s.setting_type = "integer"
    THEN str_of_int(new_value.n)
  ELSE IF s.setting_type = "json"
    THEN json_dumps(new_value)
  ELSE new_value.s

\* models.py SystemSetting.SETTING_TYPES
SETTING_TYPES == {"boolean", "string", "integer", "text", "json"}

\* the texts a row is stored with: well-formed and malformed ones
RawTexts ==
  { <<>>, <<"1">>, <<"1", "2">>, <<"-", "7">>, <<" ", "5", " ">>, <<"0", "1">>,
    <<"x", "1">>, <<"1", " ", "2">>, <<"-", "-", "1">>, <<"-">>,
    <<"[", "1", ",", " ", "2">>, <<"[", "1", ",", "]">>,
    <<"[", " ", "1", " ", ",", "0", " ", "]">>, <<"[", "[", "]", "]">>,
    <<"{", "}">>, <<"{", " ", "}">>, <<"{">>, <<"t", "r", "u">>,
    <<"T", "R", "U", "E">>, <<"Y", "e", "s">>, <<"n", "o">>,
    <<"t", "r", "u", "e">>, <<"n", "u", "l">> }

\* the values set_value is called with, by setting_type
IntInputs == {PyInt(n) : n \in {-12, -1, 0, 7, 10, 305}}
JsonInputs ==
  IntInputs \cup
  { PyNone, PyBool(TRUE), PyBool(FALSE), PyDict, PyList(<<>>),
    PyList(<<PyInt(1), PyInt(-20)>>),
    PyList(<<PyList(<<PyBool(TRUE)>>), PyNone, PyDict>>) }
StrInputs == {PyStr(<<>>), PyStr(<<"n", "o">>)}

ValueInputs(setting_type) ==
  IF setting_type = "boolean" THEN JsonInputs \cup StrInputs
  ELSE IF setting_type = "integer" THEN IntInputs
  ELSE IF setting_type = "json" THEN JsonInputs
  ELSE StrInputs

NoSetting == [setting_type |-> "none", value |-> <<>>]
NoGot == [new_value |-> None, returned |-> None]

\* ---------------------------------------------------------------- actions
Init ==
  /\ appointments = <<>>
  /\ today = 1
  /\ pc = [w \in Workers |-> "idle"]
  /\ form = [w \in Workers |-> NoForm]
  /\ profile = [d \in Doctors |-> NewDoctorProfile]
  /\ slots_call = NoCall
  /\ gats = NoGats
  /\ users = InitialUsers
  /\ sessions = {}
  /\ response = NoResponse
  /\ log = {}
  /\ setting = NoSetting
  /\ got = NoGot

\* the pc values of a worker that has answered its request
Answered == {"idle", "past_date", "slot_conflict", "booked", "IntegrityError"}

\* book_appointment, POST: the request reaches a worker, which binds the form
\* to the posted data (views.py line 397)
book_appointment_post(w) ==
  /\ pc[w] \in Answered
  /\ \E cleaned \in BookingData : form' = [form EXCEPT ![w] = cleaned]
  /\ pc' = [pc EXCEPT ![w] = "posted"]
  /\ UNCHANGED <<appointments, today, slotVars>>

\* a view that inserts the row before it validates the form
book_appointment_is_valid_SaveFirst(w) ==
  /\ pc[w] = "posted"
  /\ Len(appointments) < MaxAppointments
  /\ appointments' = Append(appointments, NewAppointment(form[w]))
  /\ LET verdict == AppointmentBookingForm_clean(form[w], appointments, today)
     IN IF verdict = "ok"
          THEN /\ pc' = [pc EXCEPT ![w] = "validated"]
               /\ form' = form
          ELSE /\ pc' = [pc EXCEPT ![w] = verdict]
               /\ form' = [form EXCEPT ![w] = NoForm]
  /\ UNCHANGED <<today, slotVars>>

\* book_appointment, form.is_valid(): an invalid form is rendered again with
\* the error clean() raised, a valid one goes on to form.save().  The posted
\* fields are taken as well-formed; the ModelForm's own uniqueness validation
\* runs inside is_valid() too and refuses in the states where clean()'s query
\* finds a row, so it changes no verdict.
book_appointment_is_valid(w) ==
  /\ pc[w] = "posted"
  /\ LET verdict == AppointmentBookingForm_clean(form[w], appointments, today)
     IN IF verdict = "ok"
          THEN /\ pc' = [pc EXCEPT ![w] = "validated"]
               /\ form' = form
          ELSE /\ pc' = [pc EXCEPT ![w] = verdict]
               /\ form' = [form EXCEPT ![w] = NoForm]
  /\ UNCHANGED <<appointments, today, slotVars>>

\* book_appointment, form.save() of a valid form: the INSERT; the table's
\* constraint raises IntegrityError, which the view does not catch
book_appointment_save(w) ==
  /\ pc[w] = "validated"
  /\ LET row == NewAppointment(form[w])
     IN IF unique_doctor_slot(appointments, row)
          THEN /\ Len(appointments) < MaxAppointments
               /\ appointments' = Append(appointments, row)
               /\ pc' = [pc EXCEPT ![w] = "booked"]
          ELSE /\ appointments' = appointments
               /\ pc' = [pc EXCEPT ![w] = "IntegrityError"]
  /\ form' = [form EXCEPT ![w] = NoForm]
  /\ UNCHANGED <<today, slotVars>>

\* a status form that also applies the past-date rule to the row it updates
AppointmentStatusForm_is_valid_NotPast(row, status, end_time) ==
  /\ status \in STATUS_CHOICES
  /\ row.date >= today

\* AppointmentStatusForm (fields status, end_time; end_time not required):
\* valid when the status is one of the model's choices
AppointmentStatusForm_is_valid(row, status, end_time) ==
  status \in STATUS_CHOICES

\* a status update that looks the row up by its id alone
appointment_update_status_AnyDoctor(doctor, id, status, end_time) ==
  /\ id \in Ids
  /\ AppointmentStatusForm_is_valid(appointments[id], status, end_time)
  /\ appointments' = [appointments EXCEPT ![id].status = status,
                                          ![id].end_time = end_time]
  /\ UNCHANGED <<today, pc, form, slotVars>>

\* the table without the row id
RemoveRow(appts, id) ==
  [j \in 1..(Len(appts) - 1) |-> IF j < id THEN appts[j] ELSE appts[j + 1]]

\* a status update that deletes the row it cancels
appointment_update_status_DeleteCancelled(doctor, id, status, end_time) ==
  /\ id \in Ids
  /\ appointments[id].doctor = doctor
  /\ status \in STATUS_CHOICES
  /\ appointments' = IF status = "cancelled"
                       THEN RemoveRow(appointments, id)
                       ELSE [appointments EXCEPT ![id].status = status,
                                                 ![id].end_time = end_time]
  /\ UNCHANGED <<today, pc, form, slotVars>>

\* appointment_update_status, POST, by the doctor `doctor`: the row is looked
\* up among the doctor's own (get_object_or_404), the form is validated
\* against it and saved
appointment_update_status(doctor, id, status, end_time) ==
  /\ id \in Ids
  /\ appointments[id].doctor = doctor
  /\ AppointmentStatusForm_is_valid(appointments[id], status, end_time)
  /\ appointments' = [appointments EXCEPT ![id].status = status,
                                          ![id].end_time = end_time]
  /\ UNCHANGED <<today, pc, form, slotVars>>

\* the clock passes midnight
Tick ==
  /\ today + 1 \in Dates
  /\ today' = today + 1
  /\ UNCHANGED <<appointments, pc, form, slotVars>>

\* the values a status form may post
StatusInputs == STATUS_CHOICES \cup {"bogus"}
EndTimeInputs == {None} \cup {Some(t) : t \in EndTimes}

\* concurrent bookings, status updates that leave end_time empty
Next ==
  \/ \E w \in Workers : book_appointment_post(w)
  \/ \E w \in Workers : book_appointment_is_valid(w)
  \/ \E w \in Workers : book_appointment_save(w)
  \/ \E d \in Doctors, id \in 1..MaxAppointments, s \in StatusInputs :
        appointment_update_status(d, id, s, None)
  \/ Tick

Spec == Init /\ [][Next]_vars

\* one booking request at a time, status updates with every end_time
NextStatus ==
  \/ book_appointment_post("w1")
  \/ book_appointment_is_valid("w1")
  \/ book_appointment_save("w1")
  \/ \E d \in Doctors, id \in 1..MaxAppointments, s \in StatusInputs,
        e \in EndTimeInputs :
        appointment_update_status(d, id, s, e)
  \/ Tick

SpecStatus == Init /\ [][NextStatus]_vars

\* ------------------------------------------- slot estimate: actions
\* availability_update, POST: DoctorAvailabilityForm saves both JSON fields
availability_update(doctor, days, slots) ==
  /\ profile' = [profile EXCEPT ![doctor] =
                   [available_days |-> days, available_time_slots |-> slots]]
  /\ UNCHANGED <<appointments, today, pc, form, slots_call, gats, accountVars,
               settingVars>>

\* an estimate that subtracts the doctor's booked appointments of the range
calculate_available_slots_call_MinusBooked(doctor, start_date, end_date) ==
  /\ LET r == calculate_available_slots(profile[doctor], start_date, end_date)
         booked == Cardinality({i \in Ids :
                      /\ appointments[i].doctor = doctor
                      /\ appointments[i].date \in start_date..end_date})
     IN slots_call' = [doctor |-> doctor, start_date |-> start_date,
                       end_date |-> end_date,
                       raised |-> r.raised, value |-> r.value - booked]
  /\ UNCHANGED <<appointments, today, pc, form, profile, gats, accountVars,
               settingVars>>

\* a call calculate_available_slots(doctor_profile, start_date, end_date)
calculate_available_slots_call(doctor, start_date, end_date) ==
  /\ LET r == calculate_available_slots(profile[doctor], start_date, end_date)
     IN slots_call' = [doctor |-> doctor, start_date |-> start_date,
                       end_date |-> end_date,
                       raised |-> r.raised, value |-> r.value]
  /\ UNCHANGED <<appointments, today, pc, form, profile, gats, accountVars,
               settingVars>>

\* doctor_schedule: the slots of the week from today to today + 7
doctor_schedule(doctor) ==
  /\ LET r == calculate_available_slots(profile[doctor], today, today + 7)
     IN slots_call' = [doctor |-> doctor, start_date |-> today,
                       end_date |-> today + 7,
                       raised |-> r.raised, value |-> r.value]
  /\ UNCHANGED <<appointments, today, pc, form, profile, gats, accountVars,
               settingVars>>

NextSlots ==
  \/ \E days \in DayValues, slots \in TimeSlotValues :
        availability_update("d1", days, slots)
  \/ \E start_date, end_date \in 1..MaxDay :
        calculate_available_slots_call("d1", start_date, end_date)
  \/ doctor_schedule("d1")

SpecSlots == Init /\ [][NextSlots]_vars

\* the availabilities the estimate is asked for while appointments are booked
EstimateDays == SUBSET {0}
EstimateSlots == {ListValue(<<>>), ListValue(<<"09:00:00", "14:00:00">>)}

\* bookings (one request at a time) next to availability updates and
\* estimates for the booked doctors and dates
NextEstimate ==
  \/ book_appointment_post("w1")
  \/ book_appointment_is_valid("w1")
  \/ book_appointment_save("w1")
  \/ \E days \in EstimateDays, slots \in EstimateSlots :
        availability_update("d1", days, slots)
  \/ \E d \in Doctors, start_date, end_date \in Dates :
        calculate_available_slots_call(d, start_date, end_date)
  \/ \E d \in Doctors : doctor_schedule(d)

SpecEstimate == Init /\ [][NextEstimate]_vars

\* ---------------------------------- get_available_time_slots: actions
\* get_available_time_slots(start_time, end_time, slot_duration, booked_slots)
\* up to the loop: slots = [], current_time = today at start_time
get_available_time_slots_call(start_time, end_time, slot_duration, booked_slots) ==
  /\ gats.pc # "loop"
  /\ gats' = [pc |-> "loop", start_time |-> start_time, end_time |-> end_time,
              slot_duration |-> slot_duration, booked_slots |-> booked_slots,
              current_time |-> start_time, slots |-> <<>>, iterations |-> 0]
  /\ UNCHANGED <<appointments, today, pc, form, profile, slots_call, accountVars,
               settingVars>>

\* a loop that runs its body once before it first tests the condition
get_available_time_slots_loop_DoWhile ==
  /\ gats.pc = "loop"
  /\ gats.iterations < MaxIterations
  /\ IF gats.iterations = 0 \/ time_of(gats.current_time) < gats.end_time
       THEN LET slot_str == strftime_HM(gats.current_time)
            IN gats' = [gats EXCEPT
                  !.slots = IF slot_str \notin gats.booked_slots
                              THEN Append(@, slot_str) ELSE @,
                  !.current_time = @ + gats.slot_duration,
                  !.iterations = @ + 1]
       ELSE gats' = [gats EXCEPT !.pc = "returned"]
  /\ UNCHANGED <<appointments, today, pc, form, profile, slots_call, accountVars,
               settingVars>>

\* one test of the while condition: an iteration of the body, or the return
get_available_time_slots_loop ==
  /\ gats.pc = "loop"
  /\ gats.iterations < MaxIterations
  /\ IF time_of(gats.current_time) < gats.end_time
       THEN LET slot_str == strftime_HM(gats.current_time)
            IN gats' = [gats EXCEPT
                  !.slots = IF slot_str \notin gats.booked_slots
                              THEN Append(@, slot_str) ELSE @,
                  !.current_time = @ + gats.slot_duration,
                  !.iterations = @ + 1]
       ELSE gats' = [gats EXCEPT !.pc = "returned"]
  /\ UNCHANGED <<appointments, today, pc, form, profile, slots_call, accountVars,
               settingVars>>

NextTimes ==
  \/ \E start_time, end_time \in TimeInputs, slot_duration \in DurationInputs,
        booked_slots \in BookedInputs :
        get_available_time_slots_call(start_time, end_time, slot_duration,
                                      booked_slots)
  \/ get_available_time_slots_loop

SpecTimes == Init /\ [][NextTimes]_vars

\* ------------------------------------------------------ accounts: actions
Responded(view, allowed_roles, requester, target, outcome) ==
  response' = [view |-> view, allowed_roles |-> allowed_roles,
               requester |-> requester, target |-> target, outcome |-> outcome]

\* a request to a view wrapped by role_required(allowed_roles) whose body
\* changes nothing (a page that only renders)
role_required_wrapper(allowed_roles, requester) ==
  /\ Responded("view_func", allowed_roles, requester, "none",
               role_required(allowed_roles, requester))
  /\ UNCHANGED <<users, sessions, log, clinicVars>>

\* a registration that stores the account already active
register_view_Active(id, role) ==
  /\ ~ users[id].exists
  /\ IF role \in {"doctor", "patient"}
       THEN /\ users' = [users EXCEPT ![id] =
                           [exists |-> TRUE, role |-> role, is_active |-> TRUE,
                            profiles |-> {ProfileOf(role)}]]
            /\ Responded("register_view", {}, AnonymousUser, id, "registered")
       ELSE /\ users' = users
            /\ Responded("register_view", {}, AnonymousUser, id, "form_invalid")
  /\ UNCHANGED <<sessions, log, clinicVars>>

\* register_view, POST: the form offers the roles doctor and patient; the
\* user is stored inactive with the profile of its role, under the next free
\* primary key
register_view(id, role) ==
  /\ ~ users[id].exists
  /\ IF role \in {"doctor", "patient"}
       THEN /\ users' = [users EXCEPT ![id] =
                           [exists |-> TRUE, role |-> role, is_active |-> FALSE,
                            profiles |-> {ProfileOf(role)}]]
            /\ Responded("register_view", {}, AnonymousUser, id, "registered")
       ELSE /\ users' = users
            /\ Responded("register_view", {}, AnonymousUser, id, "form_invalid")
  /\ UNCHANGED <<sessions, log, clinicVars>>

\* login_view, POST with the user's own name and password: the form, the
\* view's own approval check, login(), then the profile of the role is read
login_view(id) ==
  /\ users[id].exists
  /\ LET user == users[id]
     IN IF ~ UserLoginForm_is_valid(user)
          THEN /\ sessions' = sessions
               /\ Responded("login_view", {}, AnonymousUser, id, "form_invalid")
          ELSE IF user.role # "admin" /\ ~ user.is_active
                 THEN /\ sessions' = sessions
                      /\ Responded("login_view", {}, AnonymousUser, id,
                                   "pending_approval")
                 ELSE /\ sessions' = sessions \cup {id}
                      /\ Responded("login_view", {}, AnonymousUser, id,
                            IF user.role \in {"doctor", "patient"}
                               /\ ProfileOf(user.role) \notin user.profiles
                              THEN "RelatedObjectDoesNotExist"
                              ELSE "logged_in")
  /\ UNCHANGED <<users, log, clinicVars>>

\* a toggle without the check for the admin's own account
toggle_user_status_NoSelfCheck(requester, id) ==
  LET gate == role_required({"admin"}, requester)
  IN IF gate # "view_func"
       THEN /\ Responded("toggle_user_status", {"admin"}, requester, id, gate)
            /\ UNCHANGED <<users, sessions, log, clinicVars>>
       ELSE IF ~ users[id].exists \/ ~ User_full_clean(users[id])
              THEN /\ Responded("toggle_user_status", {"admin"}, requester, id,
                                "user_not_found")
                   /\ UNCHANGED <<users, sessions, log, clinicVars>>
              ELSE /\ users' = [users EXCEPT ![id].is_active = ~ @]
                   /\ log' = log \cup
                        {<<IF users[id].is_active THEN "blocked" ELSE "activated",
                           id>>}
                   /\ Responded("toggle_user_status", {"admin"}, requester, id,
                                "toggled")
                   /\ UNCHANGED <<sessions, clinicVars>>

\* toggle_user_status(request, id), wrapped by role_required(["admin"]): a
\* missing user and a failing save end in the except branch
toggle_user_status(requester, id) ==
  LET gate == role_required({"admin"}, requester)
  IN IF gate # "view_func"
       THEN /\ Responded("toggle_user_status", {"admin"}, requester, id, gate)
            /\ UNCHANGED <<users, sessions, log, clinicVars>>
       ELSE IF ~ users[id].exists
              THEN /\ Responded("toggle_user_status", {"admin"}, requester, id,
                                "user_not_found")
                   /\ UNCHANGED <<users, sessions, log, clinicVars>>
              ELSE IF requester = id
                     THEN /\ Responded("toggle_user_status", {"admin"}, requester,
                                       id, "own_account")
                          /\ UNCHANGED <<users, sessions, log, clinicVars>>
                     ELSE IF ~ User_full_clean(users[id])
                            THEN /\ Responded("toggle_user_status", {"admin"},
                                              requester, id, "user_not_found")
                                 /\ UNCHANGED <<users, sessions, log, clinicVars>>
                            ELSE /\ users' = [users EXCEPT ![id].is_active = ~ @]
                                 /\ log' = log \cup
                                      {<<IF users[id].is_active
                                           THEN "blocked" ELSE "activated", id>>}
                                 /\ Responded("toggle_user_status", {"admin"},
                                              requester, id, "toggled")
                                 /\ UNCHANGED <<sessions, clinicVars>>

\* edit_user(request, user_id), POST, wrapped by role_required(["admin"]):
\* role and is_active are taken from the request and the user is saved; no
\* profile row is created or removed.  The users are not superusers.
edit_user(requester, id, role, is_active) ==
  LET gate == role_required({"admin"}, requester)
      edited == [users[id] EXCEPT !.role = role, !.is_active = is_active]
  IN IF gate # "view_func"
       THEN /\ Responded("edit_user", {"admin"}, requester, id, gate)
            /\ UNCHANGED <<users, sessions, log, clinicVars>>
       ELSE IF ~ users[id].exists
              THEN /\ Responded("edit_user", {"admin"}, requester, id, "Http404")
                   /\ UNCHANGED <<users, sessions, log, clinicVars>>
              ELSE IF ~ User_full_clean(edited)
                     THEN /\ Responded("edit_user", {"admin"}, requester, id,
                                       "error_saving")
                          /\ UNCHANGED <<users, sessions, log, clinicVars>>
                     ELSE /\ users' = [users EXCEPT ![id] = edited]
                          /\ log' = log \cup {<<"edited", id>>}
                          /\ Responded("edit_user", {"admin"}, requester, id,
                                       "updated")
                          /\ UNCHANGED <<sessions, clinicVars>>

\* add_user(request), POST, wrapped by role_required(["admin"]): `complete`
\* says whether the fields AddUserForm.clean requires for the role were
\* posted; the user is saved before its profile is created, inside one
\* transaction, under the next free primary key
add_user(requester, id, role, complete) ==
  LET gate == role_required({"admin"}, requester)
      user == [exists |-> TRUE, role |-> role, is_active |-> TRUE, profiles |-> {}]
  IN /\ ~ users[id].exists
     /\ IF gate # "view_func"
          THEN /\ Responded("add_user", {"admin"}, requester, id, gate)
               /\ UNCHANGED <<users, sessions, log, clinicVars>>
          ELSE IF role \notin ROLE_CHOICES
                    \/ (role \in {"admin", "doctor"} /\ ~ complete)
                 THEN /\ Responded("add_user", {"admin"}, requester, id,
                                   "form_invalid")
                      /\ UNCHANGED <<users, sessions, log, clinicVars>>
                 ELSE IF ~ User_full_clean(user)
                        THEN /\ Responded("add_user", {"admin"}, requester, id,
                                          "error_creating")
                             /\ UNCHANGED <<users, sessions, log, clinicVars>>
                        ELSE /\ users' = [users EXCEPT ![id] =
                                   [user EXCEPT !.profiles = {ProfileOf(role)}]]
                             /\ Responded("add_user", {"admin"}, requester, id,
                                          "created")
                             /\ UNCHANGED <<sessions, log, clinicVars>>

\* the allowed_roles the views are wrapped with
AllowedRolesInputs == {{"admin"}, {"doctor"}, {"patient"}}

\* registration, login and the user administration
NextAccounts ==
  \/ \E id \in UserIds, role \in RoleInputs : register_view(id, role)
  \/ \E id \in UserIds : login_view(id)
  \/ \E allowed_roles \in AllowedRolesInputs, requester \in Requesters :
        role_required_wrapper(allowed_roles, requester)
  \/ \E requester \in Requesters, id \in UserIds :
        toggle_user_status(requester, id)
  \/ \E requester \in Requesters, id \in UserIds, role \in RoleInputs,
        is_active \in BOOLEAN :
        edit_user(requester, id, role, is_active)
  \/ \E requester \in Requesters, id \in UserIds, role \in RoleInputs,
        complete \in BOOLEAN :
        add_user(requester, id, role, complete)

SpecAccounts == Init /\ [][NextAccounts]_vars

\* the same without add_user: every account but a1 is self-registered
NextRegistration ==
  \/ \E id \in UserIds, role \in RoleInputs : register_view(id, role)
  \/ \E id \in UserIds : login_view(id)
  \/ \E requester \in Requesters, id \in UserIds :
        toggle_user_status(requester, id)
  \/ \E requester \in Requesters, id \in UserIds, role \in RoleInputs,
        is_active \in BOOLEAN :
        edit_user(requester, id, role, is_active)

SpecRegistration == Init /\ [][NextRegistration]_vars

\* ----------------------------------------------- SystemSetting: actions
\* a row is stored with a type and a text (load_initial_settings, the admin
\* site): value is a TextField that takes any text
SystemSetting_store(setting_type, text) ==
  /\ setting' = [setting_type |-> setting_type, value |-> text]
  /\ got' = NoGot
  /\ UNCHANGED <<appointments, today, pc, form, profile, slots_call, gats,
                 accountVars>>

\* setting.set_value(new_value) on the stored row
SystemSetting_set_value_call(new_value) ==
  /\ setting.setting_type \in SETTING_TYPES
  /\ new_value \in ValueInputs(setting.setting_type)
  /\ setting' = [setting EXCEPT !.value = SystemSetting_set_value(setting, new_value)]
  /\ got' = [new_value |-> Some(new_value), returned |-> None]
  /\ UNCHANGED <<appointments, today, pc, form, profile, slots_call, gats,
                 accountVars>>

\* setting.get_value() on the stored row
SystemSetting_get_value_call ==
  /\ setting.setting_type \in SETTING_TYPES
  /\ got' = [got EXCEPT !.returned = Some(SystemSetting_get_value(setting))]
  /\ UNCHANGED <<appointments, today, pc, form, profile, slots_call, gats,
                 accountVars, setting>>

NextSettings ==
  \/ \E setting_type \in SETTING_TYPES, text \in RawTexts :
        SystemSetting_store(setting_type, text)
  \/ \E new_value \in JsonInputs \cup StrInputs :
        SystemSetting_set_value_call(new_value)
  \/ SystemSetting_get_value_call

SpecSettings == Init /\ [][NextSettings]_vars

\* ----------------------------------------------------------------- claims
\* rows of the table that hold the slot (doctor, date, time)
Holders(appts, doctor, date, time) ==
  {i \in DOMAIN appts : /\ appts[i].doctor = doctor
                        /\ appts[i].date = date
                        /\ appts[i].time = time}

\* the step in which worker w's form.is_valid() answers
IsValidStep(w) == pc[w] = "posted" /\ pc'[w] # "posted"

\* the step in which worker w's form.save() answers
SaveStep(w) == pc[w] = "validated" /\ pc'[w] # "validated"

\* C1: after any sequence of bookings and status updates, no two rows of the
\* Appointment table share the same (doctor, date, time).
C1_UniqueDoctorSlot ==
  \A i, j \in Ids :
     i # j => \/ appointments[i].doctor # appointments[j].doctor
              \/ appointments[i].date # appointments[j].date
              \/ appointments[i].time # appointments[j].time

\* C1 witness: the table holds two rows, one of them updated by its doctor,
\* and the constraint has refused an insert.
C1_Witness ==
  /\ Len(appointments) = 2
  /\ \E i \in Ids : appointments[i].status # "pending"
  /\ \E w \in Workers : pc[w] = "IntegrityError"

\* C2: of two requests for one slot that both passed the form's check, at most
\* one is persisted: a save whose slot was taken since the check inserts
\* nothing, and a save that inserts leaves exactly one row holding the slot.
C2_AtMostOnePersisted ==
  [][\A w \in Workers :
       SaveStep(w) =>
         LET f == form[w]
         IN IF SlotTaken(appointments, f.doctor, f.date, f.time)
              THEN pc'[w] # "booked" /\ appointments' = appointments
              ELSE Cardinality(Holders(appointments', f.doctor, f.date, f.time)) = 1
    ]_vars

\* C2 witness: both workers passed the check for one slot, one insert went
\* through and the other was refused: the table's single row is the winner's.
C2_Witness ==
  /\ pc["w1"] = "booked"
  /\ pc["w2"] = "IntegrityError"
  /\ Len(appointments) = 1

\* C3: a request that passed the check and whose insert the constraint
\* refuses ends with the slot-conflict outcome, never with an unhandled
\* IntegrityError.
C3_LoserGetsSlotConflict ==
  \A w \in Workers : pc[w] # "IntegrityError"

\* C4: a request whose date is before today is answered with the past-date
\* error, whether its slot is free or taken.
C4_PastDateFirst ==
  [][\A w \in Workers :
       IsValidStep(w) /\ form[w].date < today => pc'[w] = "past_date"
    ]_vars

\* C4 witness: worker w1, alone at work, has just been answered past_date
\* while every slot of every past date was taken, so its request was for a
\* taken slot.
C4_Witness ==
  /\ pc["w2"] = "idle"
  /\ pc["w1"] = "past_date"
  /\ \A d \in Doctors, dt \in Dates, t \in Times :
        dt < today => SlotTaken(appointments, d, dt, t)

\* C5: a request for a date that is not past and a slot held by a row that is
\* not cancelled is answered with the slot-conflict error.
C5_TakenSlotRejected ==
  [][\A w \in Workers :
       ( /\ IsValidStep(w)
         /\ form[w].date >= today
         /\ \E i \in Holders(appointments, form[w].doctor, form[w].date, form[w].time) :
               appointments[i].status # "cancelled" )
       => pc'[w] = "slot_conflict"
    ]_vars

\* C5 witness: worker w1, alone at work, booked a slot and was then refused
\* with slot_conflict; the table's row is pending.
C5_Witness ==
  /\ pc["w2"] = "idle"
  /\ pc["w1"] = "slot_conflict"
  /\ Len(appointments) = 1
  /\ appointments[1].status = "pending"

\* a posted request for a date that is not past whose slot is held by
\* cancelled rows only
OnlyCancelledHolders(w) ==
  LET h == Holders(appointments, form[w].doctor, form[w].date, form[w].time)
  IN /\ form[w].date >= today
     /\ h # {}
     /\ \A i \in h : appointments[i].status = "cancelled"

AllowedTransitions ==
  {<<"pending", "confirmed">>, <<"pending", "cancelled">>,
   <<"pending", "completed">>, <<"confirmed", "cancelled">>,
   <<"confirmed", "completed">>}

\* C7: a row's status changes only along an allowed transition.
C7_OnlyAllowedTransitions ==
  [][\A i \in Ids :
       appointments'[i].status # appointments[i].status
       => <<appointments[i].status, appointments'[i].status>> \in AllowedTransitions
    ]_vars

\* C8: cancelled and completed are terminal: a row with one of them keeps it.
C8_TerminalStatusKept ==
  [][\A i \in Ids :
       appointments[i].status \in {"cancelled", "completed"}
       => appointments'[i].status = appointments[i].status
    ]_vars

\* C9: every row whose end_time is set has end_time later than its time.
C9_EndTimeAfterStart ==
  \A i \in Ids :
     appointments[i].end_time # None
     => appointments[i].end_time[1] > appointments[i].time

\* the availability set the estimate resolves: the configured weekdays, or
\* the default when none is configured
C10_ResolvedDays(doctor_profile) ==
  IF doctor_profile.available_days = {}
    THEN {1, 2, 3, 4, 5}
    ELSE doctor_profile.available_days

\* the entries of available_time_slots as a list, whatever form they are
\* stored in
C10_Entries(doctor_profile) ==
  LET raw == doctor_profile.available_time_slots
  IN IF raw.type = "list" THEN raw.list
     ELSE IF json_loads(raw.str).ok THEN json_loads(raw.str).value ELSE <<>>

\* the number of valid anchors: the entries that are times of day, or the
\* single default anchor when there is none
C10_NumAnchors(doctor_profile) ==
  LET e == C10_Entries(doctor_profile)
      n == Cardinality({i \in DOMAIN e : strptime_ok(e[i])})
  IN IF n = 0 THEN 1 ELSE n

\* C10: for every availability and every range with start_date <= end_date,
\* a call of calculate_available_slots returns a number >= 0 that equals
\* 4 x (dates of the range whose weekday is in the resolved set) x (valid anchors).
C10_CountFormula ==
  [][(slots_call' # slots_call /\ slots_call'.start_date <= slots_call'.end_date)
     => LET p == profile[slots_call'.doctor]
            businessDays ==
              Cardinality({d \in slots_call'.start_date..slots_call'.end_date :
                             weekday(d) \in C10_ResolvedDays(p)})
        IN /\ slots_call'.raised = ""
           /\ slots_call'.value >= 0
           /\ slots_call'.value = 4 * businessDays * C10_NumAnchors(p)
    ]_vars

\* the step in which a call of calculate_available_slots answers
SlotsCallStep == slots_call' # slots_call

\* C11: a call with start_date later than end_date fails with
\* InvalidRangeError instead of returning a count.
C11_ReversedRangeFails ==
  [][(SlotsCallStep /\ slots_call'.start_date > slots_call'.end_date)
     => slots_call'.raised = "InvalidRangeError"
    ]_vars

\* a list value of available_time_slots with an entry that is no time of day
HasMalformedEntry(doctor_profile) ==
  LET raw == doctor_profile.available_time_slots
  IN /\ raw.type = "list"
     /\ \E i \in DOMAIN raw.list : ~ strptime_ok(raw.list[i])

\* C12: a malformed entry never makes the count fail: it is skipped, so the
\* call returns 4 x businessDays x (entries that are times, the default
\* anchor when none is).
C12_MalformedSkipped ==
  [][(SlotsCallStep /\ HasMalformedEntry(profile[slots_call'.doctor]))
     => LET p == profile[slots_call'.doctor]
        IN /\ slots_call'.raised = ""
           /\ slots_call'.value =
                4 * CountBusinessDays(slots_call'.start_date,
                                      slots_call'.end_date, ResolveDays(p))
                  * C10_NumAnchors(p)
    ]_vars

\* Monday to Friday as datetime.date.weekday() numbers them
MondayToFriday == {0, 1, 2, 3, 4}

\* C18: with available_days empty, a call that returns has counted as
\* business days exactly the dates of the range that fall on Monday to Friday.
C18_DefaultDaysMonToFri ==
  [][(SlotsCallStep /\ profile[slots_call'.doctor].available_days = {}
        /\ slots_call'.raised = "")
     => LET p == profile[slots_call'.doctor]
            businessDays ==
              Cardinality({d \in slots_call'.start_date..slots_call'.end_date :
                             weekday(d) \in MondayToFriday})
        IN slots_call'.value = 4 * businessDays * Len(ResolveSlots(p))
    ]_vars

\* the candidates start_time + k x slot_duration that are before end_time, in
\* order, as minutes after midnight
RECURSIVE Candidates(_, _, _)
Candidates(t, end_time, slot_duration) ==
  IF t < end_time
    THEN <<t>> \o Candidates(t + slot_duration, end_time, slot_duration)
    ELSE <<>>

\* "HH:MM:SS" of a minute of the day
FormatHMS(t) == <<t \div 60, t % 60, 0>>

\* the minute of the day a returned string names
MinuteOf(slot_str) == slot_str[1] * 60 + slot_str[2]

\* C13: for start_time < end_time and slot_duration > 0 the call returns
\* exactly the candidates before end_time whose formatted value is not in
\* booked_slots, the booked times being given as HH:MM:SS.
C13_ExactlyTheFreeCandidates ==
  ( /\ gats.pc = "returned"
    /\ gats.start_time < gats.end_time
    /\ gats.slot_duration > 0
    /\ \A b \in gats.booked_slots : Len(b) = 3 )
  => LET free(t) == FormatHMS(t) \notin gats.booked_slots
     IN [i \in DOMAIN gats.slots |-> MinuteOf(gats.slots[i])]
          = SelectSeq(Candidates(gats.start_time, gats.end_time,
                                 gats.slot_duration), free)

\* C14: for start_time < end_time and slot_duration > 0 the call terminates:
\* its loop never comes back, a day or more later, to the time of day it
\* started from (from there on it would repeat for ever).
C14_Terminates ==
  ~ ( /\ gats.pc = "loop"
      /\ gats.start_time < gats.end_time
      /\ gats.slot_duration > 0
      /\ gats.current_time > gats.start_time
      /\ time_of(gats.current_time) = gats.start_time )

\* C15: a call with slot_duration zero or negative fails with
\* InvalidDurationError: it neither runs the loop nor returns a list.
C15_BadDurationFails ==
  (gats.pc # "none" /\ gats.slot_duration <= 0)
  => gats.pc = "InvalidDurationError"

\* C16: booking, status update and cancellation never remove an appointment
\* row: every row of a state is a row of the next state, with the same
\* patient, doctor, date and time; cancellation only changes its status.
C16_RowsNeverRemoved ==
  [][\A id \in DOMAIN appointments :
        /\ id \in DOMAIN appointments'
        /\ appointments'[id].patient = appointments[id].patient
        /\ appointments'[id].doctor = appointments[id].doctor
        /\ appointments'[id].date = appointments[id].date
        /\ appointments'[id].time = appointments[id].time
    ]_vars

\* a cancelled row is still stored, next to a row booked since
C16_Witness ==
  /\ Len(appointments) >= 2
  /\ appointments[1].status = "cancelled"
  /\ \A w \in Workers : pc[w] = "booked"

\* C17: every row a booking creates has status pending (and no end_time).
C17_CreatedPending ==
  [][\A id \in DOMAIN appointments' \ DOMAIN appointments :
        /\ appointments'[id].status = "pending"
        /\ appointments'[id].end_time = None
    ]_vars

\* a request has just been booked and its row is pending
C17_Witness ==
  /\ pc["w1"] = "booked"
  /\ pc["w2"] = "posted"
  /\ Len(appointments) = 1
  /\ appointments[1].status = "pending"

\* C19: the past-date rule is not applied to status updates: the doctor of a
\* row whose date is earlier than today can still post every status and
\* end_time, and the update is accepted.
C19_PastRowStillUpdatable ==
  \A id \in Ids :
     appointments[id].date < today
       => \A status \in STATUS_CHOICES, end_time \in EndTimeInputs :
            ENABLED appointment_update_status(appointments[id].doctor, id,
                                              status, end_time)

\* a row whose date is past has been completed with an end_time
C19_Witness ==
  \E id \in Ids :
     /\ appointments[id].date < today
     /\ appointments[id].status = "completed"
     /\ appointments[id].end_time # None

\* C20: a request rejected for a past date or a slot conflict leaves the
\* table as it was, and a row is added only by the save of a request that
\* passed the form's checks.
C20_RejectedLeavesStore ==
  [][/\ \A w \in Workers :
          (IsValidStep(w) /\ pc'[w] \in {"past_date", "slot_conflict"})
            => appointments' = appointments
     /\ Len(appointments') > Len(appointments)
          => \E w \in Workers : pc[w] = "validated" /\ pc'[w] = "booked"
    ]_vars

\* both rejections have happened and the table holds the one booked row
C20_Witness ==
  /\ pc["w1"] = "past_date"
  /\ pc["w2"] = "slot_conflict"
  /\ Len(appointments) = 1

\* C21: the estimate ignores bookings and has no side effect: a call answers
\* what the doctor's availability and the range alone determine, whatever
\* rows the table holds, and changes nothing but the answer it gives.
C21_EstimateIgnoresBookings ==
  [][SlotsCallStep
     => LET r == calculate_available_slots(profile[slots_call'.doctor],
                                           slots_call'.start_date,
                                           slots_call'.end_date)
        IN /\ slots_call'.raised = r.raised
           /\ slots_call'.value = r.value
           /\ UNCHANGED <<appointments, today, pc, form, profile, gats, accountVars,
               settingVars>>
    ]_vars

\* an estimate above zero was given for a doctor with a row in the range
C21_Witness ==
  /\ slots_call.doctor = "d1"
  /\ slots_call.raised = ""
  /\ slots_call.value > 0
  /\ \E i \in Ids :
        /\ appointments[i].doctor = "d1"
        /\ appointments[i].date \in slots_call.start_date..slots_call.end_date

\* an availability whose available_time_slots holds no entry that is a time
\* of day: it is empty, or nothing is left once the malformed entries are
\* dropped
NoAnchorLeft(doctor_profile) ==
  LET e == C10_Entries(doctor_profile)
  IN \A i \in DOMAIN e : ~ strptime_ok(e[i])

\* C22: when available_time_slots is empty, or holds malformed entries only,
\* the estimate uses the single default anchor and returns 4 x businessDays.
C22_DefaultAnchor ==
  [][(SlotsCallStep /\ NoAnchorLeft(profile[slots_call'.doctor]))
     => LET p == profile[slots_call'.doctor]
        IN /\ slots_call'.raised = ""
           /\ slots_call'.value =
                4 * CountBusinessDays(slots_call'.start_date,
                                      slots_call'.end_date, ResolveDays(p))
    ]_vars

\* C23: for start_time < end_time and slot_duration > 0 the returned list is
\* strictly increasing in time of day (and so holds no value twice).
C23_StrictlyIncreasing ==
  ( /\ gats.pc = "returned"
    /\ gats.start_time < gats.end_time
    /\ gats.slot_duration > 0 )
  => \A i, j \in DOMAIN gats.slots :
        i < j => MinuteOf(gats.slots[i]) < MinuteOf(gats.slots[j])

\* C24: a call with start_time equal to or later than end_time and a positive
\* slot_duration never enters the loop body and returns the empty list,
\* without an error, whatever booked_slots holds.
C24_EmptyRangeEmptyList ==
  ( /\ gats.pc # "none"
    /\ gats.start_time >= gats.end_time
    /\ gats.slot_duration > 0 )
  => /\ gats.pc \in {"loop", "returned"}
     /\ gats.slots = <<>>
     /\ gats.iterations = 0
     /\ gats.pc = "loop" => ~ (time_of(gats.current_time) < gats.end_time)

\* a call with start_time >= end_time and booked entries has returned the
\* empty list
C24_Witness ==
  /\ gats.pc = "returned"
  /\ gats.start_time >= gats.end_time
  /\ gats.slot_duration > 0
  /\ gats.booked_slots # {}
  /\ gats.slots = <<>>

\* C26: a doctor changes only appointments of that doctor's own profile: for
\* a row of another doctor the lookup finds nothing, so no status update by
\* that doctor can take place, whatever status and end_time it posts, and
\* the row stays as it is.
C26_OnlyOwnAppointments ==
  \A id \in Ids, doctor \in Doctors :
     doctor # appointments[id].doctor
       => \A status \in StatusInputs, end_time \in EndTimeInputs :
            ~ ENABLED appointment_update_status(doctor, id, status, end_time)

\* two doctors each have a row; the first row was updated by its own doctor
\* and the other row is as it was booked
C26_Witness ==
  /\ Len(appointments) = 2
  /\ appointments[1].doctor # appointments[2].doctor
  /\ appointments[1].status = "confirmed"
  /\ appointments[1].end_time # None
  /\ appointments[2] = NewAppointment(appointments[2])

\* a step that handles a request to an account view; response' tells which
AccountStep == accountVars' # accountVars

\* C25: a view wrapped by role_required(allowed_roles) runs its body only for
\* an authenticated user whose role is in allowed_roles; an unauthenticated
\* request is redirected to login, an authenticated user with another role
\* gets PermissionDenied, and in both cases nothing stored changes.
C25_BodyOnlyForAllowedRoles ==
  [][(AccountStep /\ response'.allowed_roles # {})
     => LET r == response'
            refused == r.outcome \in {"redirect_login", "PermissionDenied"}
        IN /\ ~ is_authenticated(r.requester)
                => /\ r.outcome = "redirect_login"
                   /\ UNCHANGED <<users, sessions, log, clinicVars>>
           /\ (is_authenticated(r.requester)
                 /\ users[r.requester].role \notin r.allowed_roles)
                => /\ r.outcome = "PermissionDenied"
                   /\ UNCHANGED <<users, sessions, log, clinicVars>>
           /\ ~ refused
                => /\ is_authenticated(r.requester)
                   /\ users[r.requester].role \in r.allowed_roles
    ]_vars

\* a logged-in user that is no admin was refused an admin view, and the
\* admin's own request went through
C25_Witness ==
  /\ response.view = "toggle_user_status"
  /\ response.requester = "u1"
  /\ response.outcome = "PermissionDenied"
  /\ "u1" \in sessions
  /\ "a1" \in sessions

\* the accounts created by register_view
SelfRegistered == UserIds \ {"a1"}

\* the step in which login_view opens a session for the user id
LoginSucceeds(id) == id \notin sessions /\ id \in sessions'

\* C27 as stated: a self-registered account is stored inactive and no login
\* of it succeeds before toggle_user_status has activated it.
C27_NoLoginBeforeToggle ==
  [][/\ (AccountStep /\ response'.outcome = "registered")
          => ~ users'[response'.target].is_active
     /\ \A id \in SelfRegistered :
          LoginSucceeds(id) => <<"activated", id>> \in log
    ]_vars

\* C27: a self-registered account is stored inactive, login_view opens no
\* session for a user that is no admin and not active, and no login of the
\* account succeeds before an admin has activated it, with
\* toggle_user_status or by saving edit_user.
C27_NoLoginBeforeActivation ==
  [][/\ (AccountStep /\ response'.outcome = "registered")
          => ~ users'[response'.target].is_active
     /\ \A id \in UserIds :
          (LoginSucceeds(id) /\ users[id].role # "admin") => users[id].is_active
     /\ \A id \in SelfRegistered :
          LoginSucceeds(id)
            => (<<"activated", id>> \in log \/ <<"edited", id>> \in log)
    ]_vars

\* a self-registered account is logged in that edit_user, not
\* toggle_user_status, activated
C27_Witness ==
  /\ "u1" \in sessions
  /\ <<"edited", "u1">> \in log
  /\ <<"activated", "u1">> \notin log
  /\ <<"blocked", "u1">> \notin log

\* C28: every stored user has the profile that matches its role.
C28_ProfileMatchesRole ==
  \A id \in UserIds :
     users[id].exists => ProfileOf(users[id].role) \in users[id].profiles

\* C29: a toggle_user_status request whose target is the requester changes
\* nothing, so an admin never deactivates their own account; an admin's
\* request for another stored user flips that user's is_active and changes
\* no other user.
C29_ToggleFlipsOthersOnly ==
  [][(AccountStep /\ response'.view = "toggle_user_status")
     => LET r == response'
        IN /\ r.requester = r.target => UNCHANGED <<users, sessions, log>>
           /\ ( /\ r.requester # r.target
                /\ role_required({"admin"}, r.requester) = "view_func"
                /\ users[r.target].exists )
                => users' = [users EXCEPT ![r.target].is_active = ~ @]
    ]_vars

\* the admin was refused the toggle of their own account and is still
\* active, after blocking and activating another user
C29_Witness ==
  /\ response.view = "toggle_user_status"
  /\ response.requester = "a1"
  /\ response.target = "a1"
  /\ response.outcome = "own_account"
  /\ users["a1"].is_active
  /\ {<<"blocked", "u1">>, <<"activated", "u1">>} \subseteq log

\* C30: get_value never raises; after set_value(v) it returns the truth value
\* of v for a boolean setting and v itself for an integer or json setting;
\* for a stored text that is no integer it returns 0 and for one that is no
\* json it returns {}.
C30_SettingRoundTrip ==
  got.returned # None
  => LET r == got.returned[1]
         ty == setting.setting_type
     IN /\ r.raised = ""
        /\ got.new_value # None
             => LET v == got.new_value[1]
                IN /\ ty = "boolean" => r.value = PyBool(truth(v))
                   /\ ty \in {"integer", "json"} => r.value = v
        /\ (ty = "integer" /\ ~ int_of_str(setting.value).ok) => r.value = PyInt(0)
        /\ (ty = "json" /\ ~ json_loads_text(setting.value).ok) => r.value = PyDict

\* a nested list went through a json setting and came back
C30_Witness ==
  /\ setting.setting_type = "json"
  /\ got.new_value = Some(PyList(<<PyList(<<PyBool(TRUE)>>), PyNone, PyDict>>))
  /\ got.returned # None
  /\ got.returned[1].value = got.new_value[1]

====
